---- MODULE Spec2Model ----
(***************************************************************************)
(* Retrieval-augmented question answering pipeline (skitzo):               *)
(*   app/document_processor.py  chunker (DocumentProcessor)                *)
(*   app/embedding_service.py   similarity index (EmbeddingService)        *)
(*   app/gemini_service.py      answer generator (GeminiService)           *)
(*   app/query_processor.py     orchestrator (QueryProcessor)              *)
(*                                                                         *)
(* Three specifications share the module:                                  *)
(*   SpecChunk  one process_document_from_url extraction / chunking pass   *)
(*   SpecIndex  the public operations of one EmbeddingService object       *)
(*   Spec       process_request calls as tasks of one event loop           *)
(*                                                                         *)
(* Strings are kept run-length encoded: a text is a sequence of runs       *)
(* [c |-> character, n |-> repetitions], n > 0, so that texts far longer   *)
(* than chunk_size stay small values.  Offsets are 0-based as in Python.   *)
(***************************************************************************)
EXTENDS Integers, Sequences, FiniteSets, TLC

VARIABLES
    \* ---- DocumentProcessor: one extraction pass -------------------------
    doc,            \* the downloaded document [url, type, pages]
    page_num,       \* _process_pdf: loop variable page_num (0-based)
    start,          \* _create_text_chunks: cursor start
    chunk_index,    \* _create_text_chunks: chunk_index
    page_chunks,    \* _create_text_chunks: local list chunks
    chunks,         \* _process_pdf/_docx/_text: list chunks being returned
    cpc,            \* position of the pass: "page", "loop", "done"
    \* ---- EmbeddingService object ----------------------------------------
    index,          \* self.index: the vectors held by the FAISS index
    chunks_metadata,\* self.chunks_metadata
    is_indexed,     \* self.is_indexed
    last_chunks,    \* argument of the most recent index_chunks call
    prev_chunks,    \* argument of the index_chunks call before that one
    index_raised,   \* whether the most recent index_chunks call raised
    last_call,      \* the most recent call on the service and its outcome
    \* ---- QueryProcessor.process_request tasks ---------------------------
    pc,             \* per request: "idle", "fetched", "indexed", "gathering", "done",
                    \* or where it raised: "failed_fetch", "failed_index", "failed_retrieve"
    running,        \* the request the event loop is executing (0: none)
    req,            \* per request: document_url's document, questions, chunks,
                    \* contexts and the generate_answer tasks handed to gather
    finished,       \* per request: indices of its completed tasks, in completion order
    answers         \* per request: the list process_request returned

chunkVars == <<doc, page_num, start, chunk_index, page_chunks, chunks, cpc>>
indexVars == <<index, chunks_metadata, is_indexed, last_chunks, prev_chunks,
               index_raised, last_call>>
reqVars   == <<pc, running, req, finished, answers>>
vars      == <<chunkVars, indexVars, reqVars>>

(***************************************************************************)
(* Bounds of the model and constants of the program                        *)
(***************************************************************************)
MaxRuns == 3            \* runs per input text
MaxPages == 2           \* pages of a paginated document
MaxTopK == 3            \* largest top_k asked of search_similar directly
MaxQuestions == 2       \* questions of one request
MaxCuts == 2            \* places where a 2500-character text changes character

chunk_size == 1000
overlap == 200
default_threshold == 50     \* score_threshold = 0.5, in hundredths
default_max_chunks == 3
max_context_chunks == 3

Min(a, b) == IF a < b THEN a ELSE b
Max(a, b) == IF a > b THEN a ELSE b
SetMax(S) == CHOOSE x \in S : \A y \in S : y <= x

(***************************************************************************)
(* Python str operations on run-length encoded texts                       *)
(***************************************************************************)
Whitespace == {" ", "\n"}

RECURSIVE TextLen(_)
TextLen(t) == IF t = <<>> THEN 0 ELSE Head(t).n + TextLen(Tail(t))

\* offset of the first character of run i, and one past its last character
RunStart(t, i) == TextLen(SubSeq(t, 1, i - 1))
RunEnd(t, i) == TextLen(SubSeq(t, 1, i))

\* text[lo:hi]
Slice(t, lo, hi) ==
    LET clip(i) == Min(RunEnd(t, i), hi) - Max(RunStart(t, i), lo)
        cut == [i \in 1..Len(t) |-> [c |-> t[i].c, n |-> clip(i)]]
    IN  SelectSeq(cut, LAMBDA r : r.n > 0)

\* text.rfind(ch, lo, hi): highest offset in [lo, hi) holding ch, else -1
RFind(t, ch, lo, hi) ==
    LET hits == {Min(RunEnd(t, i), hi) - 1 : i \in
                    {j \in 1..Len(t) : /\ t[j].c = ch
                                       /\ RunStart(t, j) < hi
                                       /\ RunEnd(t, j) > lo
                                       /\ lo < hi}}
    IN  IF hits = {} THEN -1 ELSE SetMax(hits)

RECURSIVE LStrip(_)
LStrip(t) == IF t # <<>> /\ Head(t).c \in Whitespace THEN LStrip(Tail(t)) ELSE t

RECURSIVE RStrip(_)
RStrip(t) ==
    IF t # <<>> /\ t[Len(t)].c \in Whitespace
    THEN RStrip(SubSeq(t, 1, Len(t) - 1)) ELSE t

\* text.strip()
Strip(t) == RStrip(LStrip(t))

\* every character of t is whitespace (true of the empty text)
AllWhitespace(t) == \A i \in 1..Len(t) : t[i].c \in Whitespace

(***************************************************************************)
(* DocumentChunk and _create_text_chunks                                   *)
(***************************************************************************)
\* f"chunk_{chunk_index}"
ChunkId(k) == <<"chunk_", k>>

DocumentChunk(text, chunk_id, source_meta) ==
    [text |-> text, chunk_id |-> chunk_id, source_meta |-> source_meta]

\* the len(text) <= chunk_size branch: the text goes out as it came in
ShortChunk(text, base_metadata) ==
    DocumentChunk(text, ChunkId(0), [chunk_index |-> 0] @@ base_metadata)

\* end of the window that starts at `start`, after word-boundary snapping
WindowEnd(text, s) ==
    LET end == s + chunk_size
        break_point == RFind(text, " ", end - overlap, end)
    IN  IF end < TextLen(text) /\ break_point > s THEN break_point ELSE end

\* the cursor moved to the window's end, without the overlap
NextStart_NoOverlap(text, end) ==
    IF end < TextLen(text) THEN end ELSE TextLen(text)

\* the cursor stepped forward from the window's end
NextStart_SignSlip(text, end) ==
    IF end < TextLen(text) THEN end + overlap ELSE TextLen(text)

\* the cursor stepped back by twice the overlap
NextStart_DoubleOverlap(text, end) ==
    IF end < TextLen(text) THEN end - 2 * overlap ELSE TextLen(text)

\* start = end - self.overlap if end < len(text) else len(text)
NextStart(text, end) ==
    IF end < TextLen(text) THEN end - overlap ELSE TextLen(text)

\* chunk_text = text[start:end].strip(): the slice is taken once, then trimmed
WindowChunk(text, base_metadata, s, end, k) ==
    CHOOSE c \in {DocumentChunk(Strip(piece), ChunkId(k),
                                [chunk_index |-> k, start_char |-> s, end_char |-> end]
                                    @@ base_metadata) :
                      piece \in {Slice(text, s, end)}} : TRUE

(***************************************************************************)
(* Documents: what the download and the parsing library hand over          *)
(***************************************************************************)
Chars == {"a", " ", "\n"}
RunLens == {1, 900, 2000}
Runs == [c : Chars, n : RunLens]

TextsOf(k) == UNION {[1..m -> Runs] : m \in 1..k}

\* a paginated document's pages are single runs; other inputs have up to MaxRuns
PageTexts == TextsOf(1)
Texts == TextsOf(MaxRuns)

\* plain-text files of 2500 characters: up to MaxCuts offsets from CutPos split
\* the text into segments, each segment one repeated character
CutPos == {1, 800, 801, 999, 1000, 1600, 1601, 2499}

RECURSIVE SortedSeq(_)
SortedSeq(S) ==
    IF S = {} THEN <<>>
    ELSE LET m == CHOOSE x \in S : \A y \in S : x <= y
         IN  <<m>> \o SortedSeq(S \ {m})

Segmented(cuts, cls) ==
    [i \in 1..Len(cls) |->
        [c |-> cls[i],
         n |-> (IF i = Len(cls) THEN 2500 ELSE cuts[i])
               - (IF i = 1 THEN 0 ELSE cuts[i - 1])]]

Texts2500 ==
    UNION {{Segmented(SortedSeq(S), cls) : cls \in [1..(Cardinality(S) + 1) -> Chars]} :
              S \in {T \in SUBSET CutPos : Cardinality(T) <= MaxCuts}}

DocUrl == "u1"

Documents ==
    [url : {DocUrl}, type : {"pdf", "docx", "text"}, pages : {<<t>> : t \in Texts}]
    \cup [url : {DocUrl}, type : {"pdf"},
          pages : UNION {[1..m -> PageTexts] : m \in 2..MaxPages}]
    \cup [url : {DocUrl}, type : {"text"}, pages : {<<t>> : t \in Texts2500}]

BaseMetadata(d, p) ==
    IF d.type = "pdf"
    THEN [source_url |-> d.url, page |-> p + 1, document_type |-> "pdf",
          total_pages |-> Len(d.pages)]
    ELSE [source_url |-> d.url, document_type |-> d.type]

PageText == doc.pages[page_num + 1]

(***************************************************************************)
(* SpecChunk: _process_pdf / _process_docx / _process_text                 *)
(***************************************************************************)
NoCall == [op |-> "none", raised |-> FALSE, query |-> <<>>, top_k |-> 0,
           threshold |-> 0, value |-> <<>>]

\* a freshly downloaded document; the service object as constructed; no request
ChunkInit ==
    /\ doc \in Documents
    /\ page_num = 0
    /\ start = 0
    /\ chunk_index = 0
    /\ page_chunks = <<>>
    /\ chunks = <<>>
    /\ cpc = "page"
    /\ index = <<>> /\ chunks_metadata = <<>> /\ is_indexed = FALSE
    /\ last_chunks = <<>> /\ prev_chunks = <<>> /\ index_raised = FALSE
    /\ last_call = NoCall
    /\ pc = <<>> /\ running = 0 /\ req = <<>> /\ finished = <<>> /\ answers = <<>>

\* a page (or the whole text) whose strip() is empty contributes nothing
SkipBlank ==
    /\ cpc = "page" /\ page_num < Len(doc.pages)
    /\ Strip(PageText) = <<>>
    /\ page_num' = page_num + 1
    /\ UNCHANGED <<doc, start, chunk_index, page_chunks, chunks, cpc>>
    /\ UNCHANGED <<indexVars, reqVars>>

\* _create_text_chunks, len(text) <= chunk_size
ChunkShort ==
    /\ cpc = "page" /\ page_num < Len(doc.pages)
    /\ Strip(PageText) # <<>>
    /\ TextLen(PageText) <= chunk_size
    /\ chunks' = chunks \o <<ShortChunk(PageText, BaseMetadata(doc, page_num))>>
    /\ page_num' = page_num + 1
    /\ UNCHANGED <<doc, start, chunk_index, page_chunks, cpc>>
    /\ UNCHANGED <<indexVars, reqVars>>

\* _create_text_chunks, else branch: start = 0, chunk_index = 0
LoopEnter ==
    /\ cpc = "page" /\ page_num < Len(doc.pages)
    /\ Strip(PageText) # <<>>
    /\ TextLen(PageText) > chunk_size
    /\ start' = 0
    /\ chunk_index' = 0
    /\ page_chunks' = <<>>
    /\ cpc' = "loop"
    /\ UNCHANGED <<doc, page_num, chunks>>
    /\ UNCHANGED <<indexVars, reqVars>>

\* one iteration of while start < len(text)
LoopIter ==
    /\ cpc = "loop" /\ start < TextLen(PageText)
    /\ \E end \in {WindowEnd(PageText, start)} :
       \E c \in {WindowChunk(PageText, BaseMetadata(doc, page_num), start, end,
                              chunk_index)} :
           /\ IF c.text # <<>>
              THEN /\ page_chunks' = Append(page_chunks, c)
                   /\ chunk_index' = chunk_index + 1
              ELSE UNCHANGED <<page_chunks, chunk_index>>
           /\ start' = NextStart(PageText, end)
    /\ UNCHANGED <<doc, page_num, chunks, cpc>>
    /\ UNCHANGED <<indexVars, reqVars>>

\* loop exit: return chunks; the caller extends its list
LoopExit ==
    /\ cpc = "loop" /\ start >= TextLen(PageText)
    /\ chunks' = chunks \o page_chunks
    /\ page_num' = page_num + 1
    /\ cpc' = "page"
    /\ UNCHANGED <<doc, start, chunk_index, page_chunks>>
    /\ UNCHANGED <<indexVars, reqVars>>

\* all pages visited: the chunk list is returned
ChunkReturn ==
    /\ cpc = "page" /\ page_num = Len(doc.pages)
    /\ cpc' = "done"
    /\ UNCHANGED <<doc, page_num, start, chunk_index, page_chunks, chunks>>
    /\ UNCHANGED <<indexVars, reqVars>>

ChunkNext ==
    \/ SkipBlank \/ ChunkShort \/ LoopEnter \/ LoopIter \/ LoopExit \/ ChunkReturn

\* The whole of _create_text_chunks / _process_* as operators, for the callers
RECURSIVE ChunkLoop(_, _, _, _)
ChunkLoop(text, base_metadata, s, k) ==
    IF s >= TextLen(text) THEN <<>>
    ELSE LET end == WindowEnd(text, s)
             c == WindowChunk(text, base_metadata, s, end, k)
         IN  IF c.text # <<>>
             THEN <<c>> \o ChunkLoop(text, base_metadata, NextStart(text, end), k + 1)
             ELSE ChunkLoop(text, base_metadata, NextStart(text, end), k)

create_text_chunks(text, base_metadata) ==
    IF TextLen(text) <= chunk_size
    THEN <<ShortChunk(text, base_metadata)>>
    ELSE ChunkLoop(text, base_metadata, 0, 0)

RECURSIVE ProcessPages(_, _)
ProcessPages(d, p) ==
    IF p >= Len(d.pages) THEN <<>>
    ELSE (IF Strip(d.pages[p + 1]) # <<>>
          THEN create_text_chunks(d.pages[p + 1], BaseMetadata(d, p))
          ELSE <<>>) \o ProcessPages(d, p + 1)

\* process_document_from_url, once the download has succeeded
process_document(d) == ProcessPages(d, 0)

(***************************************************************************)
(* EmbeddingService                                                        *)
(*                                                                         *)
(* The embedding model is an outside capability: a deterministic map from  *)
(* a text to a unit vector.  Vectors are kept in tenths and inner products *)
(* (similarity scores) therefore in hundredths: 50 is the score 0.5.       *)
(***************************************************************************)
RECURSIVE CountChar(_, _)
CountChar(t, ch) ==
    IF t = <<>> THEN 0
    ELSE (IF Head(t).c = ch THEN Head(t).n ELSE 0) + CountChar(Tail(t), ch)

Embed(t) ==
    LET na == CountChar(t, "a")
        nb == CountChar(t, "b")
    IN  IF na > 0 /\ nb = 0 THEN <<10, 0>>
        ELSE IF nb > 0 /\ na = 0 THEN <<0, 10>>
        ELSE IF na > nb THEN <<8, 6>>
        ELSE IF nb > na THEN <<6, 8>>
        ELSE <<7, 7>>

Dot(u, v) == u[1] * v[1] + u[2] * v[2]

\* faiss.IndexFlatIP.search: the k best inner products, best first; when the
\* index holds fewer than k vectors the tail is padded with idx -1
RECURSIVE Nearest(_, _, _)
Nearest(scores, remaining, k) ==
    IF k <= 0 THEN <<>>
    ELSE IF remaining = {}
    THEN <<[score |-> -1000, idx |-> -1]>> \o Nearest(scores, {}, k - 1)
    ELSE LET b == CHOOSE i \in remaining : \A j \in remaining :
                      \/ scores[i] > scores[j]
                      \/ scores[i] = scores[j] /\ i <= j
         IN  <<[score |-> scores[b], idx |-> b - 1]>>
                 \o Nearest(scores, remaining \ {b}, k - 1)

IndexSearch(ix, qv, k) ==
    Nearest([i \in 1..Len(ix) |-> Dot(ix[i], qv)], 1..Len(ix), k)

Service == [index |-> index, chunks_metadata |-> chunks_metadata,
            is_indexed |-> is_indexed]

\* index_chunks with the clearing forgotten and the new corpus appended
index_chunks_NoClear(svc, cs, ok) ==
    IF ok
    THEN [index |-> svc.index \o [i \in 1..Len(cs) |-> Embed(cs[i].text)],
          chunks_metadata |-> svc.chunks_metadata \o cs,
          is_indexed |-> TRUE, raised |-> FALSE]
    ELSE [index |-> svc.index, chunks_metadata |-> svc.chunks_metadata,
          is_indexed |-> svc.is_indexed, raised |-> TRUE]

\* index_chunks with the clearing moved after the embedding
index_chunks_LateClear(svc, cs, ok) ==
    IF ok
    THEN [index |-> [i \in 1..Len(cs) |-> Embed(cs[i].text)],
          chunks_metadata |-> cs, is_indexed |-> TRUE, raised |-> FALSE]
    ELSE [index |-> svc.index, chunks_metadata |-> svc.chunks_metadata,
          is_indexed |-> svc.is_indexed, raised |-> TRUE]

\* index_chunks that resets the vectors but keeps the old metadata until the end
index_chunks_KeepMeta(svc, cs, ok) ==
    IF ok
    THEN [index |-> [i \in 1..Len(cs) |-> Embed(cs[i].text)],
          chunks_metadata |-> cs, is_indexed |-> TRUE, raised |-> FALSE]
    ELSE [index |-> <<>>, chunks_metadata |-> svc.chunks_metadata,
          is_indexed |-> svc.is_indexed, raised |-> TRUE]

\* index_chunks(chunks); ok: whether embed_texts / index.add went through.
\* The index and the metadata are cleared before anything can fail.
index_chunks(svc, cs, ok) ==
    IF ok
    THEN [index |-> [i \in 1..Len(cs) |-> Embed(cs[i].text)],
          chunks_metadata |-> cs, is_indexed |-> TRUE, raised |-> FALSE]
    ELSE [index |-> <<>>, chunks_metadata |-> <<>>,
          is_indexed |-> svc.is_indexed, raised |-> TRUE]

\* the for loop of search_similar over zip(scores[0], indices[0])
RECURSIVE Collect(_, _, _)
Collect(meta, hits, threshold) ==
    IF hits = <<>> THEN <<>>
    ELSE LET h == Head(hits)
         IN  (IF h.idx # -1 /\ h.score >= threshold
              THEN <<[similarity_score |-> h.score] @@ meta[h.idx + 1]>>
              ELSE <<>>) \o Collect(meta, Tail(hits), threshold)

\* search_similar without the score test
search_similar_NoThreshold(svc, query, top_k, threshold, ok) ==
    IF ~svc.is_indexed THEN [raised |-> FALSE, value |-> <<>>]
    ELSE IF ~ok THEN [raised |-> TRUE, value |-> <<>>]
    ELSE [raised |-> FALSE,
          value |-> Collect(svc.chunks_metadata,
                            IndexSearch(svc.index, Embed(query), top_k), -1000)]

\* search_similar(query, top_k, score_threshold); ok: whether embed_texts went
\* through.  A hit outside chunks_metadata is an IndexError, re-raised.
search_similar(svc, query, top_k, threshold, ok) ==
    IF ~svc.is_indexed THEN [raised |-> FALSE, value |-> <<>>]
    ELSE IF ~ok THEN [raised |-> TRUE, value |-> <<>>]
    ELSE LET hits == IndexSearch(svc.index, Embed(query), top_k)
         IN  IF \E i \in 1..Len(hits) :
                    /\ hits[i].idx # -1 /\ hits[i].score >= threshold
                    /\ hits[i].idx >= Len(svc.chunks_metadata)
             THEN [raised |-> TRUE, value |-> <<>>]
             ELSE [raised |-> FALSE,
                   value |-> Collect(svc.chunks_metadata, hits, threshold)]

\* get_context_for_query(query, max_chunks): the rendered blocks
\* "[Context i] (Score: s)\n{text}", one per result, in result order
get_context_for_query(svc, query, max_chunks, ok) ==
    LET r == search_similar(svc, query, max_chunks, default_threshold, ok)
    IN  [raised |-> r.raised,
         value |-> [i \in 1..Len(r.value) |->
                       [rank |-> i, score |-> r.value[i].similarity_score,
                        text |-> r.value[i].text]]]

(***************************************************************************)
(* Inputs of the index and of the pipeline                                 *)
(***************************************************************************)
Run(ch, k) == [c |-> ch, n |-> k]

\* u1: plain text of 1801 characters, three chunks
\* u2: PDF of two pages, one chunk from page 1 and three from page 2
\* u3: PDF whose only page is blank, no chunk
IndexDocs ==
    { [url |-> "u1", type |-> "text",
       pages |-> << <<Run("a", 900), Run(" ", 1), Run("b", 900)>> >>],
      [url |-> "u2", type |-> "pdf",
       pages |-> << <<Run("a", 900)>>, <<Run("a", 2000)>> >>],
      [url |-> "u3", type |-> "pdf", pages |-> << <<Run("\n", 1)>> >>] }

Corpora == {process_document(d) : d \in IndexDocs}

Queries == { <<Run("a", 3)>>, <<Run("b", 3)>>, <<Run("a", 2), Run(" ", 1), Run("b", 1)>> }

Thresholds == {0, 50, 90}

(***************************************************************************)
(* SpecIndex: calls on one EmbeddingService                                *)
(***************************************************************************)
\* __init__: empty index, no metadata, is_indexed False; no chunking pass, no request
IndexInit ==
    /\ index = <<>>
    /\ chunks_metadata = <<>>
    /\ is_indexed = FALSE
    /\ last_chunks = <<>>
    /\ prev_chunks = <<>>
    /\ index_raised = FALSE
    /\ last_call = NoCall
    /\ doc = [url |-> DocUrl, type |-> "text", pages |-> <<>>]
    /\ page_num = 0 /\ start = 0 /\ chunk_index = 0
    /\ page_chunks = <<>> /\ chunks = <<>> /\ cpc = "done"
    /\ pc = <<>> /\ running = 0 /\ req = <<>> /\ finished = <<>> /\ answers = <<>>

IndexChunks(cs, ok) ==
    LET r == index_chunks(Service, cs, ok)
    IN  /\ index' = r.index
        /\ chunks_metadata' = r.chunks_metadata
        /\ is_indexed' = r.is_indexed
        /\ last_chunks' = cs
        /\ prev_chunks' = last_chunks
        /\ index_raised' = r.raised
        /\ last_call' = [NoCall EXCEPT !.op = "index_chunks", !.raised = r.raised]
        /\ UNCHANGED <<chunkVars, reqVars>>

SearchSimilar(q, k, th, ok) ==
    LET r == search_similar(Service, q, k, th, ok)
    IN  /\ last_call' = [op |-> "search_similar", raised |-> r.raised, query |-> q,
                         top_k |-> k, threshold |-> th, value |-> r.value]
        /\ UNCHANGED <<index, chunks_metadata, is_indexed, last_chunks, prev_chunks,
                       index_raised>>
        /\ UNCHANGED <<chunkVars, reqVars>>

GetContext(q, ok) ==
    LET r == get_context_for_query(Service, q, default_max_chunks, ok)
    IN  /\ last_call' = [op |-> "get_context_for_query", raised |-> r.raised,
                         query |-> q, top_k |-> default_max_chunks,
                         threshold |-> default_threshold, value |-> r.value]
        /\ UNCHANGED <<index, chunks_metadata, is_indexed, last_chunks, prev_chunks,
                       index_raised>>
        /\ UNCHANGED <<chunkVars, reqVars>>

IndexNext ==
    \/ \E cs \in Corpora, ok \in BOOLEAN : IndexChunks(cs, ok)
    \/ \E q \in Queries, k \in 1..MaxTopK, th \in Thresholds, ok \in BOOLEAN :
          SearchSimilar(q, k, th, ok)
    \/ \E q \in Queries, ok \in BOOLEAN : GetContext(q, ok)

SpecChunk == ChunkInit /\ [][ChunkNext]_vars

\* a started call keeps executing: the interpreter runs the loop body and the
\* statements after it without waiting on anything
SpecChunkFair == ChunkInit /\ [][ChunkNext]_vars /\ WF_vars(ChunkNext)

SpecIndex == IndexInit /\ [][IndexNext]_vars

(***************************************************************************)
(* GeminiService                                                           *)
(*                                                                         *)
(* The completion capability is an outside call that either returns a text *)
(* for the prompt built from (query, context) or fails; here it echoes the *)
(* question and the context it was given.                                  *)
(***************************************************************************)
Complete(query, context) == [kind |-> "answer", query |-> query, context |-> context]

\* "I apologize, but I encountered an error while processing your query: {e}"
Apology(e) == [kind |-> "apology", error |-> e]

\* generate_answer without the try / except around the call
generate_answer_NoCatch(query, context, ok) ==
    IF ok THEN [exc |-> FALSE, value |-> Complete(query, context)]
    ELSE [exc |-> TRUE, value |-> [kind |-> "exception", error |-> "e"]]

\* generate_answer(query, context); ok: whether the completion call went through.
\* exc tells whether the coroutine ended by raising.
generate_answer(query, context, ok) ==
    IF ok THEN [exc |-> FALSE, value |-> Complete(query, context)]
    ELSE [exc |-> FALSE, value |-> Apology("e")]

\* zip(queries, contexts): one task per pair
Zip(qs, cs) ==
    [i \in 1..Min(Len(qs), Len(cs)) |->
        [query |-> qs[i], context |-> cs[i], state |-> "pending",
         result |-> [exc |-> FALSE, value |-> <<>>]]]

\* the await is over as soon as one task has ended
all_done_FirstCompleted(tasks) ==
    tasks = <<>> \/ \E i \in 1..Len(tasks) : tasks[i].state # "pending"

\* await asyncio.gather(...): the awaiting coroutine resumes once every task
\* has ended, by returning or by raising
all_done(tasks) == \A i \in 1..Len(tasks) : tasks[i].state # "pending"

\* results taken in the order the tasks completed
gather_CompletionOrder(tasks, order) == [i \in 1..Len(tasks) |-> tasks[order[i]].result]

\* asyncio.gather(*tasks, return_exceptions=True): results in argument order
gather(tasks, order) == [i \in 1..Len(tasks) |-> tasks[i].result]

\* the loop of generate_batch_answers over results
batch_answers(results) ==
    [i \in 1..Len(results) |->
        IF results[i].exc
        THEN [kind |-> "error", error |-> results[i].value.error]
        ELSE results[i].value]

(***************************************************************************)
(* QueryProcessor                                                          *)
(***************************************************************************)
\* the retrieval loop with empty contexts left out of the list
retrieve_contexts_SkipEmpty(svc, qs, oks) ==
    LET r == [i \in 1..Len(qs) |->
                 get_context_for_query(svc, qs[i], max_context_chunks, oks[i])]
    IN  [raised |-> \E i \in 1..Len(qs) : r[i].raised,
         value |-> SelectSeq([i \in 1..Len(qs) |-> r[i].value],
                             LAMBDA c : c # <<>>)]

\* _process_questions_with_gemini, the loop that fills contexts; oks[i]: whether
\* the embedding of question i went through.  The first failure is re-raised.
retrieve_contexts(svc, qs, oks) ==
    LET r == [i \in 1..Len(qs) |->
                 get_context_for_query(svc, qs[i], max_context_chunks, oks[i])]
    IN  [raised |-> \E i \in 1..Len(qs) : r[i].raised,
         value |-> [i \in 1..Len(qs) |-> r[i].value]]

Req == {1, 2}

QA == <<Run("a", 3)>>
QB == <<Run("b", 3)>>
QM == <<Run("a", 2), Run(" ", 1), Run("b", 1)>>

\* question lists: the leading questions of two orderings of the three queries
QuestionLists ==
    {SubSeq(l, 1, n) : l \in {<<QA, QB, QM>>, <<QM, QB, QA>>},
                       n \in 0..Min(MaxQuestions, 3)}

\* documents whose extraction yields chunks
PipelineDocs == {d \in IndexDocs : process_document(d) # <<>>}

\* what process_document_from_url returns for each of them
Extracted == [d \in PipelineDocs |-> process_document(d)]

NoRequest == [doc |-> <<>>, questions |-> <<>>, chunks |-> <<>>, contexts |-> <<>>,
              tasks |-> <<>>]

Failed == {"failed_fetch", "failed_index", "failed_retrieve"}

\* the services as constructed at import of main.py; no request received
Init ==
    /\ index = <<>>
    /\ chunks_metadata = <<>>
    /\ is_indexed = FALSE
    /\ last_chunks = <<>>
    /\ prev_chunks = <<>>
    /\ index_raised = FALSE
    /\ last_call = NoCall
    /\ doc = [url |-> DocUrl, type |-> "text", pages |-> <<>>]
    /\ page_num = 0 /\ start = 0 /\ chunk_index = 0
    /\ page_chunks = <<>> /\ chunks = <<>> /\ cpc = "done"
    /\ pc = [r \in Req |-> "idle"]
    /\ running = 0
    /\ req = [r \in Req |-> NoRequest]
    /\ finished = [r \in Req |-> <<>>]
    /\ answers = [r \in Req |-> <<>>]

\* process_request, stage (a): _process_document.  The download is a blocking
\* requests.get, so the event loop stays with this request.
Fetch(r, d, qs, ok) ==
    /\ pc[r] = "idle" /\ running = 0
    /\ req' = [req EXCEPT ![r] = [NoRequest EXCEPT !.doc = d, !.questions = qs,
                                     !.chunks = IF ok THEN Extracted[d] ELSE <<>>]]
    /\ pc' = [pc EXCEPT ![r] = IF ok THEN "fetched" ELSE "failed_fetch"]
    /\ running' = IF ok THEN r ELSE 0
    /\ UNCHANGED <<finished, answers, chunkVars, indexVars>>

\* an await that suspends between indexing and retrieval: the loop is given up
loop_after_index_Yield(r) == 0

\* who holds the event loop when _index_chunks has returned: process_request
\* goes on to _process_questions_with_gemini, whose retrieval loop is
\* synchronous; the first suspension is the await of gather
loop_after_index(r) == r

\* stage (b): _index_chunks
Reindex(r, ok) ==
    /\ pc[r] = "fetched" /\ running = r
    /\ LET x == index_chunks(Service, req[r].chunks, ok)
       IN  /\ index' = x.index
           /\ chunks_metadata' = x.chunks_metadata
           /\ is_indexed' = x.is_indexed
           /\ last_chunks' = req[r].chunks
           /\ prev_chunks' = last_chunks
           /\ index_raised' = x.raised
           /\ pc' = [pc EXCEPT ![r] = IF x.raised THEN "failed_index" ELSE "indexed"]
           /\ running' = IF x.raised THEN 0 ELSE loop_after_index(r)
    /\ UNCHANGED <<req, finished, answers, last_call, chunkVars>>

\* stage (c), up to the await of gather: the contexts of all questions are
\* retrieved, one coroutine per (question, context) pair is created and gather
\* schedules them; the request then waits and the loop is free.
Retrieve(r, oks) ==
    /\ pc[r] = "indexed" /\ running \in {0, r}
    /\ LET x == retrieve_contexts(Service, req[r].questions, oks)
       IN  IF x.raised
           THEN /\ pc' = [pc EXCEPT ![r] = "failed_retrieve"]
                /\ UNCHANGED req
           ELSE /\ pc' = [pc EXCEPT ![r] = "gathering"]
                /\ req' = [req EXCEPT ![r].contexts = x.value,
                                      ![r].tasks = Zip(req[r].questions, x.value)]
    /\ running' = 0
    /\ UNCHANGED <<finished, answers, chunkVars, indexVars>>

\* one generate_answer coroutine comes back from asyncio.to_thread and ends
CompleteTask(r, i, ok) ==
    /\ pc[r] = "gathering" /\ running = 0
    /\ i \in 1..Len(req[r].tasks)
    /\ req[r].tasks[i].state = "pending"
    /\ req' = [req EXCEPT ![r].tasks[i].state = IF ok THEN "ok" ELSE "failed",
                          ![r].tasks[i].result =
                              generate_answer(req[r].tasks[i].query,
                                              req[r].tasks[i].context, ok)]
    /\ finished' = [finished EXCEPT ![r] = Append(finished[r], i)]
    /\ UNCHANGED <<pc, running, answers, chunkVars, indexVars>>

\* every task has ended: gather delivers, generate_batch_answers and
\* process_request return
GatherReturn(r) ==
    /\ pc[r] = "gathering" /\ running = 0
    /\ all_done(req[r].tasks)
    /\ answers' = [answers EXCEPT ![r] = batch_answers(gather(req[r].tasks, finished[r]))]
    /\ pc' = [pc EXCEPT ![r] = "done"]
    /\ UNCHANGED <<running, req, finished, chunkVars, indexVars>>

Next ==
    \/ \E r \in Req, d \in PipelineDocs, qs \in QuestionLists, ok \in BOOLEAN :
          Fetch(r, d, qs, ok)
    \/ \E r \in Req, ok \in BOOLEAN : Reindex(r, ok)
    \/ \E r \in Req, oks \in [1..Min(MaxQuestions, 3) -> BOOLEAN] : Retrieve(r, oks)
    \/ \E r \in Req, i \in 1..Min(MaxQuestions, 3), ok \in BOOLEAN :
          CompleteTask(r, i, ok)
    \/ \E r \in Req : GatherReturn(r)

Spec == Init /\ [][Next]_vars

\* what the event loop does for a request once it was received: it runs the
\* request's synchronous stages to their end and resumes a coroutine whose
\* awaited call has come back; that every completion call comes back is the
\* premise under which the request is expected to return
Progress(r) ==
    \/ \E ok \in BOOLEAN : Reindex(r, ok)
    \/ \E oks \in [1..Min(MaxQuestions, 3) -> BOOLEAN] : Retrieve(r, oks)
    \/ \E i \in 1..Min(MaxQuestions, 3), ok \in BOOLEAN : CompleteTask(r, i, ok)
    \/ GatherReturn(r)

SpecFair == Init /\ [][Next]_vars /\ \A r \in Req : WF_vars(Progress(r))

(***************************************************************************)
(* Properties of the chunker (SpecChunk)                                   *)
(***************************************************************************)
StartChar(c) == c.source_meta.start_char
EndChar(c) == c.source_meta.end_char

\* chunk_index values of the emitted chunks are 0, 1, 2, ...
ContiguousIndices ==
    \A i \in 1..Len(page_chunks) :
        /\ page_chunks[i].source_meta.chunk_index = i - 1
        /\ page_chunks[i].chunk_id = ChunkId(i - 1)

\* C8 as stated: for a text longer than chunk_size, consecutive emitted chunks
\* satisfy start_char[i+1] <= end_char[i] and start_char[i+1] >= end_char[i] - 200,
\* and the chunk_index values are contiguous from 0.
C8_Original ==
    cpc = "loop" =>
        /\ \A i \in 1..(Len(page_chunks) - 1) :
              /\ StartChar(page_chunks[i + 1]) <= EndChar(page_chunks[i])
              /\ StartChar(page_chunks[i + 1]) >= EndChar(page_chunks[i]) - overlap
        /\ ContiguousIndices

\* C8 amended: for a text longer than chunk_size, consecutive emitted chunks
\* satisfy start_char[i+1] >= end_char[i] - 200, and start_char[i+1] <= end_char[i]
\* unless every character of text[end_char[i]:start_char[i+1]] is whitespace
\* (whitespace-only windows between the two chunks were skipped); the chunk_index
\* values are contiguous from 0.
C8_Overlap ==
    cpc = "loop" =>
        /\ \A i \in 1..(Len(page_chunks) - 1) :
              /\ StartChar(page_chunks[i + 1]) >= EndChar(page_chunks[i]) - overlap
              /\ \/ StartChar(page_chunks[i + 1]) <= EndChar(page_chunks[i])
                 \/ AllWhitespace(Slice(PageText, EndChar(page_chunks[i]),
                                        StartChar(page_chunks[i + 1])))
        /\ ContiguousIndices

\* C8 witness: the loop has emitted two overlapping chunks and then one that
\* starts past the end of its predecessor
C8_Witness ==
    /\ cpc = "loop" /\ TextLen(PageText) > chunk_size
    /\ Len(page_chunks) >= 3
    /\ StartChar(page_chunks[2]) < EndChar(page_chunks[1])
    /\ StartChar(page_chunks[3]) > EndChar(page_chunks[2])

\* C9 as stated: every chunk emitted by _create_text_chunks, for a text of any
\* length, has a non-empty text without leading or trailing whitespace.
C9_Trimmed ==
    \A i \in 1..Len(chunks) :
        /\ chunks[i].text # <<>>
        /\ Strip(chunks[i].text) = chunks[i].text

\* C10 as stated: no two chunks of the list one process_document_from_url call
\* returns have the same chunk_id.
C10_UniqueIds ==
    cpc = "done" =>
        \A i, j \in 1..Len(chunks) : i # j => chunks[i].chunk_id # chunks[j].chunk_id

\* the chunking loop has run to its end on a 2500-character plain-text file
Done2500 ==
    /\ cpc = "loop" /\ doc.type = "text"
    /\ TextLen(PageText) = 2500
    /\ start >= TextLen(PageText)

NoWhitespace(t) == \A i \in 1..Len(t) : t[i].c \notin Whitespace

\* C11 as stated: every 2500-character unpaginated text yields exactly 3 chunks,
\* the first starting at offset 0 and the last ending at offset 2500.
C11_Original ==
    Done2500 =>
        /\ Len(page_chunks) = 3
        /\ StartChar(page_chunks[1]) = 0
        /\ EndChar(page_chunks[3]) = 2500

\* C11 amended: a 2500-character unpaginated text yields at least 1 and at most
\* 4 chunks; when the text holds no whitespace it yields exactly 3, starting at
\* offsets 0, 800 and 1600, the last one holding the text from offset 1600 to
\* the end of the text.
C11_ChunkCount ==
    Done2500 =>
        /\ Len(page_chunks) \in 1..4
        /\ NoWhitespace(PageText) =>
              /\ Len(page_chunks) = 3
              /\ StartChar(page_chunks[1]) = 0
              /\ StartChar(page_chunks[2]) = 800
              /\ StartChar(page_chunks[3]) = 1600
              /\ page_chunks[3].text = Slice(PageText, 1600, 2500)

\* C11 witness: a 2500-character text came out as 4 chunks
C11_Witness == Done2500 /\ Len(page_chunks) = 4

\* C13: every chunk emitted by the windowed branch carries offsets that lie
\* inside the source text, 0 <= start_char < end_char <= len(text), and its
\* text is the whitespace-trimmed slice text[start_char:end_char].
C13_ValidOffsets ==
    cpc = "loop" =>
        \A i \in 1..Len(page_chunks) :
            /\ 0 <= StartChar(page_chunks[i])
            /\ StartChar(page_chunks[i]) < EndChar(page_chunks[i])
            /\ EndChar(page_chunks[i]) <= TextLen(PageText)
            /\ page_chunks[i].text =
                   Strip(Slice(PageText, StartChar(page_chunks[i]), EndChar(page_chunks[i])))

\* one iteration of the chunking loop
Iteration == cpc = "loop" /\ cpc' = "loop" /\ start < TextLen(PageText)

\* C15: the chunking loop terminates: an iteration whose window ends before the
\* text's end advances start by at least chunk_size - 2*overlap, the iteration
\* whose window reaches the text's end sets start to len(text), and a loop that
\* was entered is eventually left.
C15_Terminates ==
    /\ [][Iteration =>
             IF start + chunk_size < TextLen(PageText)
             THEN start' >= start + chunk_size - 2 * overlap
             ELSE start' = TextLen(PageText)]_vars
    /\ (cpc = "loop") ~> (cpc # "loop")

\* C15 witness: the first window was snapped back to the earliest break point
\* the search admits, so the cursor advanced by exactly chunk_size - 2*overlap
C15_Witness ==
    /\ cpc = "loop" /\ Len(page_chunks) = 1
    /\ start = chunk_size - 2 * overlap
    /\ start < TextLen(PageText)

(***************************************************************************)
(* Properties of the similarity index (SpecIndex)                          *)
(***************************************************************************)
Range(f) == {f[i] : i \in DOMAIN f}

IsPrefix(a, b) == Len(a) <= Len(b) /\ SubSeq(b, 1, Len(a)) = a

\* a retrieval result without its appended similarity_score
Metadata(r) == [k \in DOMAIN r \ {"similarity_score"} |-> r[k]]

SearchReturned == last_call.op = "search_similar" /\ ~last_call.raised

\* C4: after any sequence of index_chunks calls, every result search_similar
\* returns is the metadata of a chunk passed to the most recent index_chunks
\* call; nothing of an earlier generation that the latest one does not hold
\* is ever returned.
C4_LatestGeneration ==
    SearchReturned =>
        \A i \in 1..Len(last_call.value) :
            /\ Metadata(last_call.value[i]) \in Range(last_chunks)
            /\ Metadata(last_call.value[i]) \notin Range(prev_chunks) \ Range(last_chunks)

\* C4 witness: two different non-empty corpora were indexed one after the
\* other and a search returned results
C4_Witness ==
    /\ SearchReturned /\ last_call.value # <<>>
    /\ prev_chunks # <<>> /\ ~index_raised
    /\ Range(prev_chunks) \cap Range(last_chunks) = {}

\* C5: when the embedding capability fails during index_chunks the call raises
\* and the index is left with zero vectors and zero metadata entries, whatever
\* was indexed before; a search_similar that follows returns an empty sequence.
C5_NoPartialIndex ==
    index_raised =>
        /\ index = <<>>
        /\ chunks_metadata = <<>>
        /\ SearchReturned => last_call.value = <<>>

\* C5 witness: a corpus was indexed, the next index_chunks raised, and a search
\* then ran against the index (is_indexed still set) and returned
C5_Witness ==
    /\ index_raised /\ is_indexed
    /\ prev_chunks # <<>> /\ last_chunks # <<>>
    /\ SearchReturned

\* C6: in every state the number of stored vectors equals len(chunks_metadata),
\* the vector at position i is the embedding of chunks_metadata[i]'s text, and
\* every index the nearest-neighbour lookup returns is -1 or a valid position
\* of chunks_metadata.
C6_Aligned ==
    /\ Len(index) = Len(chunks_metadata)
    /\ \A i \in 1..Len(index) : index[i] = Embed(chunks_metadata[i].text)
    /\ \A q \in Queries, k \in 1..MaxTopK :
          \A h \in Range(IndexSearch(index, Embed(q), k)) :
              h.idx \in -1..(Len(chunks_metadata) - 1)

\* C6 witness: a four-chunk corpus replaced an earlier corpus and a search
\* returned three of its chunks
C6_Witness ==
    /\ Len(index) = 4 /\ prev_chunks # <<>> /\ prev_chunks # last_chunks
    /\ SearchReturned /\ Len(last_call.value) = 3

\* C7: search_similar returns at most top_k results, each with
\* similarity_score >= threshold, in descending score order, and its result is
\* a prefix of the result for any lower threshold with the same query and top_k.
C7_Search ==
    SearchReturned =>
        LET v == last_call.value
        IN  /\ Len(v) <= last_call.top_k
            /\ \A i \in 1..Len(v) : v[i].similarity_score >= last_call.threshold
            /\ \A i \in 1..(Len(v) - 1) :
                  v[i].similarity_score >= v[i + 1].similarity_score
            /\ \A th \in Thresholds :
                  th <= last_call.threshold =>
                      IsPrefix(v, search_similar(Service, last_call.query,
                                                 last_call.top_k, th, TRUE).value)

\* C7 witness: a search whose threshold cut the ranked list: two results with
\* different scores came back and a lower threshold would have given more
C7_Witness ==
    /\ SearchReturned /\ Len(last_call.value) = 2
    /\ last_call.value[1].similarity_score > last_call.value[2].similarity_score
    /\ \E th \in Thresholds :
          Len(search_similar(Service, last_call.query, last_call.top_k, th,
                             TRUE).value) > 2

(***************************************************************************)
(* Properties of the pipeline (Spec)                                       *)
(***************************************************************************)
Tasks(r) == req[r].tasks

\* C1: the list generate_batch_answers (and so process_request) returns holds
\* at position i the outcome of the call made for question i with context i,
\* whatever the order in which the concurrent calls completed.
C1_OrderPreserved ==
    \A r \in Req : pc[r] = "done" =>
        /\ Len(answers[r]) = Len(req[r].questions)
        /\ \A i \in 1..Len(answers[r]) :
              /\ Tasks(r)[i].query = req[r].questions[i]
              /\ Tasks(r)[i].context = req[r].contexts[i]
              /\ answers[r][i] = Tasks(r)[i].result.value
              /\ Tasks(r)[i].state = "ok" =>
                    answers[r][i] = Complete(req[r].questions[i], req[r].contexts[i])

\* C1 witness: a request returned after its second call completed before its
\* first, the two calls having different outcomes
C1_Witness ==
    \E r \in Req :
        /\ pc[r] = "done" /\ Len(answers[r]) = 2
        /\ finished[r] = <<2, 1>>
        /\ answers[r][1] # answers[r][2]

\* C2: whatever subset of positions the completion capability fails at,
\* generate_batch_answers returns len(queries) answers, an error placeholder at
\* each failing position and the normal answer at every other position, and no
\* generate_answer coroutine ends by raising.
C2_FailureIsolated ==
    \A r \in Req :
        /\ \A i \in 1..Len(Tasks(r)) : ~Tasks(r)[i].result.exc
        /\ pc[r] = "done" =>
              /\ Len(req[r].questions) = Len(req[r].contexts) =>
                    Len(answers[r]) = Len(req[r].questions)
              /\ Len(answers[r]) = Len(Tasks(r))
              /\ \A i \in 1..Len(Tasks(r)) :
                    /\ Tasks(r)[i].state = "failed" =>
                          answers[r][i].kind \in {"apology", "error"}
                    /\ Tasks(r)[i].state = "ok" =>
                          answers[r][i].kind = "answer"

\* C2 witness: a batch of two returned with the completion call of one
\* position failed and the other succeeded
C2_Witness ==
    \E r \in Req :
        /\ pc[r] = "done" /\ Len(answers[r]) = 2
        /\ Tasks(r)[2].state = "failed" /\ Tasks(r)[1].state = "ok"
        /\ answers[r][2].kind = "apology" /\ answers[r][1].kind = "answer"

\* C3 as stated: process_request raises only when stage (a) or stage (b) fails;
\* once both have succeeded stage (c) returns an answer list.
C3_Original ==
    \A r \in Req : pc[r] \in Failed => pc[r] \in {"failed_fetch", "failed_index"}

\* C3 amended: process_request raises only when stage (a), stage (b) or the
\* context retrieval that opens stage (c) fails; once the contexts of all
\* questions have been retrieved the request cannot raise any more, and it
\* returns an answer list as long as the question list whatever completion
\* calls fail.
C3_Stages ==
    [][\A r \in Req :
          /\ pc[r] = "gathering" => pc'[r] \in {"gathering", "done"}
          /\ pc'[r] = "done" => Len(answers'[r]) = Len(req'[r].questions)
          /\ (pc'[r] \in Failed /\ pc[r] \notin Failed) =>
                \/ pc[r] = "idle" /\ pc'[r] = "failed_fetch"
                \/ pc[r] = "fetched" /\ pc'[r] = "failed_index"
                \/ pc[r] = "indexed" /\ pc'[r] = "failed_retrieve"]_vars

\* C3 witness: a request with two questions returned two answers although
\* both completion calls failed
C3_Witness ==
    \E r \in Req :
        /\ pc[r] = "done" /\ Len(req[r].questions) = 2 /\ Len(answers[r]) = 2
        /\ \A i \in 1..2 : Tasks(r)[i].state = "failed"

\* some completion call of request r has not come back yet
InFlight(r) == \E i \in 1..Len(req[r].tasks) : req[r].tasks[i].state = "pending"

\* C12: in stage (c) one completion call per question is dispatched before any
\* result is consumed; no answer is delivered while a call is in flight; the
\* request returns its whole answer list only when every call has resolved;
\* and a request whose calls were dispatched eventually returns.
C12_AllThenReturn ==
    /\ [](\A r \in Req :
            /\ pc[r] \in {"gathering", "done"} =>
                   Len(req[r].tasks) = Len(req[r].questions)
            /\ finished[r] # <<>> => Len(req[r].tasks) = Len(req[r].questions)
            /\ InFlight(r) => answers[r] = <<>> /\ pc[r] = "gathering"
            /\ pc[r] # "done" => answers[r] = <<>>
            /\ pc[r] = "done" =>
                   /\ ~InFlight(r)
                   /\ Len(answers[r]) = Len(req[r].questions)
                   /\ Len(finished[r]) = Len(req[r].tasks))
    /\ \A r \in Req : (pc[r] = "gathering") ~> (pc[r] = "done")

\* C12 witness: a request returned two answers while the other request still
\* has a call in flight and one already back
C12_Witness ==
    \E r, o \in Req :
        /\ pc[r] = "done" /\ Len(answers[r]) = 2
        /\ pc[o] = "gathering" /\ InFlight(o) /\ finished[o] # <<>>

\* the service as index_chunks leaves it when given request r's chunks
OwnService(r) == index_chunks(Service, req[r].chunks, TRUE)

\* C14: with two overlapping requests on one event loop and one shared
\* EmbeddingService, a request that has indexed its chunks holds the loop until
\* its contexts are retrieved and the index it searches holds its own chunks;
\* the contexts its retrieval produces are those retrieved from an index of its
\* own document's chunks, and they are the contexts its completion calls get,
\* unchanged until the request returns.
C14_OwnDocument ==
    /\ [](\A r \in Req :
            pc[r] = "indexed" =>
                /\ running = r
                /\ chunks_metadata = req[r].chunks
                /\ req[r].chunks = process_document(req[r].doc))
    /\ [][\A r \in Req :
            pc[r] = "indexed" /\ pc'[r] = "gathering" =>
                /\ req'[r].chunks = process_document(req'[r].doc)
                /\ req'[r].contexts =
                       retrieve_contexts(OwnService(r), req[r].questions,
                                         [i \in 1..Len(req[r].questions) |-> TRUE]).value
                /\ \A i \in 1..Len(req'[r].tasks) :
                       req'[r].tasks[i].context = req'[r].contexts[i]]_vars
    /\ [][\A r \in Req :
            pc[r] \in {"gathering", "done"} =>
                /\ req'[r].doc = req[r].doc
                /\ req'[r].contexts = req[r].contexts
                /\ \A i \in 1..Len(req[r].tasks) :
                       req'[r].tasks[i].context = req[r].tasks[i].context]_vars

\* C14 witness: both requests are awaiting their completion calls, for
\* different documents, each with a non-empty context, while the shared index
\* holds the chunks of only one of them
C14_Witness ==
    \E r, o \in Req :
        /\ r # o /\ pc[r] = "gathering" /\ pc[o] = "gathering"
        /\ req[r].doc # req[o].doc
        /\ InFlight(r) /\ InFlight(o)
        /\ \E i \in 1..Len(req[r].contexts) : req[r].contexts[i] # <<>>
        /\ \E i \in 1..Len(req[o].contexts) : req[o].contexts[i] # <<>>
        /\ chunks_metadata = req[o].chunks /\ chunks_metadata # req[r].chunks

====
